---- MODULE Spec2Model ----
(***************************************************************************)
(* A model of beangulp_simplefin.SimpleFINImporter: the entry builder      *)
(* (extract, _extract_transaction, _make_balance), the date normalizer     *)
(* (_parse_date) and the duplicate comparator (cmp).                       *)
(*                                                                         *)
(* Encoding of Python values                                               *)
(*   - text whose characters the code looks at (dates, amounts) is a       *)
(*     sequence of one-character strings; opaque text (account names,      *)
(*     ids, currencies, descriptions) is a TLA+ string;                    *)
(*   - an optional value (a dict key that may be missing, a field that may *)
(*     be None) is <<>> when missing/None and <<v>> when present;          *)
(*   - a calendar date is its number of days since 1970-01-01;             *)
(*   - a Decimal is [sign, int, exp] as in decimal.Decimal.as_tuple(),     *)
(*     with int the sequence of coefficient digits, or a special value.    *)
(***************************************************************************)
EXTENDS Integers, Sequences, FiniteSets, TLC

\* ------------------------------------------------------------------------
\* Python primitives used by the code
\* ------------------------------------------------------------------------

None == <<>>

Some(v) == <<v>>

\* d.get(key, default) of an optional value that holds opaque text
GetOr(x, default) == IF x = None THEN default ELSE x[1]

DigitChars == <<"0", "1", "2", "3", "4", "5", "6", "7", "8", "9">>

IsDigit(c) == \E i \in 1..10 : DigitChars[i] = c

DigitVal(c) == (CHOOSE i \in 1..10 : DigitChars[i] = c) - 1

AllDigits(s) == \A i \in 1..Len(s) : IsDigit(s[i])

\* int(s) of a sequence of digit characters (int("") does not occur)
RECURSIVE StrToNat(_)
StrToNat(s) ==
    IF Len(s) = 0 THEN 0
    ELSE 10 * StrToNat(SubSeq(s, 1, Len(s) - 1)) + DigitVal(s[Len(s)])

\* str(n) of a natural number
RECURSIVE NatToStr(_)
NatToStr(n) ==
    IF n < 10 THEN <<DigitChars[n + 1]>>
    ELSE NatToStr(n \div 10) \o <<DigitChars[(n % 10) + 1]>>

\* s with its leading "0" characters removed, "0" when nothing is left:
\* str(int(s)) of a sequence of digits
RECURSIVE StripLeadingZeros(_)
StripLeadingZeros(s) ==
    IF Len(s) = 0 THEN <<"0">>
    ELSE IF s[1] = "0" THEN StripLeadingZeros(Tail(s))
    ELSE s

\* n copies of "0"
Zeros(n) == [i \in 1..n |-> "0"]

\* index of the first occurrence of character c in s, 0 when there is none
FindChar(s, c) ==
    IF \E i \in 1..Len(s) : s[i] = c
    THEN CHOOSE i \in 1..Len(s) : s[i] = c /\ \A j \in 1..(i - 1) : s[j] # c
    ELSE 0

\* str.lower() on the letters the decimal parser's special values use
Lower(c) ==
    CASE c = "N" -> "n" [] c = "A" -> "a" [] c = "I" -> "i" [] c = "F" -> "f"
      [] c = "T" -> "t" [] c = "Y" -> "y" [] c = "E" -> "e"
      [] OTHER -> c

LowerStr(s) == [i \in 1..Len(s) |-> Lower(s[i])]

\* ------------------------------------------------------------------------
\* decimal.Decimal: construction from text, str(), comparison
\* ------------------------------------------------------------------------

InvalidOperation == [raised |-> "InvalidOperation"]

DecNaN(sign) == [special |-> "NaN", sign |-> sign]

DecInf(sign) == [special |-> "Infinity", sign |-> sign]

IsSpecial(d) == "special" \in DOMAIN d

\* DecFinite losing a trailing zero of the fraction: 5.50 becomes 5.5
DecFinite_DropsTrailingZero(sign, intpart, fracpart, exp) ==
    IF Len(fracpart) > 0 /\ fracpart[Len(fracpart)] = "0"
    THEN [sign |-> sign,
          int  |-> StripLeadingZeros(
                       intpart \o SubSeq(fracpart, 1, Len(fracpart) - 1)),
          exp  |-> exp - (Len(fracpart) - 1)]
    ELSE [sign |-> sign,
          int  |-> StripLeadingZeros(intpart \o fracpart),
          exp  |-> exp - Len(fracpart)]

\* the finite number with sign, integer digits, fraction digits and
\* exponent as matched by the decimal parser:
\*   _int = str(int(intpart + fracpart)), _exp = exp - len(fracpart)
DecFinite(sign, intpart, fracpart, exp) ==
    [sign |-> sign,
     int  |-> StripLeadingZeros(intpart \o fracpart),
     exp  |-> exp - Len(fracpart)]

\* the exponent text after "E": an optional sign and at least one digit
ExpValid(e) ==
    LET body == IF Len(e) > 0 /\ e[1] \in {"+", "-"} THEN Tail(e) ELSE e
    IN  Len(body) > 0 /\ AllDigits(body)

ExpValue(e) ==
    IF e[1] = "-" THEN 0 - StrToNat(Tail(e))
    ELSE IF e[1] = "+" THEN StrToNat(Tail(e))
    ELSE StrToNat(e)

\* Decimal(s) for a text s: the number, or InvalidOperation when s is no
\* numeric string.  Grammar: [sign] (digits [. digits] | . digits)
\* [E [sign] digits] | [sign] Inf[inity] | [sign] NaN, letters in any case.
DecimalOf(s) ==
    LET hasSign == Len(s) > 0 /\ s[1] \in {"+", "-"}
        sign    == IF hasSign /\ s[1] = "-" THEN 1 ELSE 0
        body    == LowerStr(IF hasSign THEN Tail(s) ELSE s)
        ePos    == FindChar(body, "e")
        mant    == IF ePos = 0 THEN body ELSE SubSeq(body, 1, ePos - 1)
        expTxt  == IF ePos = 0 THEN <<>> ELSE SubSeq(body, ePos + 1, Len(body))
        dot     == FindChar(mant, ".")
        intpart == IF dot = 0 THEN mant ELSE SubSeq(mant, 1, dot - 1)
        frac    == IF dot = 0 THEN <<>> ELSE SubSeq(mant, dot + 1, Len(mant))
    IN  IF body = <<"n", "a", "n">> THEN DecNaN(sign)
        ELSE IF body = <<"i", "n", "f">>
                \/ body = <<"i", "n", "f", "i", "n", "i", "t", "y">>
             THEN DecInf(sign)
        ELSE IF /\ AllDigits(intpart)
                /\ AllDigits(frac)
                /\ Len(intpart) + Len(frac) > 0
                /\ (ePos # 0 => ExpValid(expTxt))
             THEN DecFinite(sign, intpart, frac,
                            IF ePos = 0 THEN 0 ELSE ExpValue(expTxt))
        ELSE InvalidOperation

\* "%+d" % n
SignedIntStr(n) ==
    IF n < 0 THEN <<"-">> \o NatToStr(0 - n) ELSE <<"+">> \o NatToStr(n)

\* str(d), Decimal.__str__: plain notation when the exponent is <= 0 and
\* the leading digit is at or above the 10^-6 place, scientific otherwise
DecimalStr(d) ==
    LET sign == IF d.sign = 1 THEN <<"-">> ELSE <<>>
    IN  IF IsSpecial(d)
        THEN sign \o (IF d.special = "NaN" THEN <<"N", "a", "N">>
                      ELSE <<"I", "n", "f", "i", "n", "i", "t", "y">>)
        ELSE
        LET n          == Len(d.int)
            leftdigits == d.exp + n
            dotplace   == IF d.exp <= 0 /\ leftdigits > -6 THEN leftdigits ELSE 1
            intpart    == IF dotplace <= 0 THEN <<"0">>
                          ELSE IF dotplace >= n
                               THEN d.int \o Zeros(dotplace - n)
                          ELSE SubSeq(d.int, 1, dotplace)
            fracpart   == IF dotplace <= 0
                          THEN <<".">> \o Zeros(0 - dotplace) \o d.int
                          ELSE IF dotplace >= n THEN <<>>
                          ELSE <<".">> \o SubSeq(d.int, dotplace + 1, n)
            exp        == IF leftdigits = dotplace THEN <<>>
                          ELSE <<"E">> \o SignedIntStr(leftdigits - dotplace)
        IN  sign \o intpart \o fracpart \o exp

DecIsZero(d) == ~IsSpecial(d) /\ d.int = <<"0">>

DecIsNaN(d) == IsSpecial(d) /\ d.special = "NaN"

\* d < 0, Decimal.__lt__ against the int 0, for d not a NaN (a NaN operand
\* signals InvalidOperation, which the default context raises)
DecLtZero(d) ==
    IF IsSpecial(d) THEN d.sign = 1
    ELSE d.sign = 1 /\ ~DecIsZero(d)

\* the coefficient digits without trailing zeros, and the exponent raised
\* by as many: the same number, in its shortest form
RECURSIVE DecReduce(_)
DecReduce(d) ==
    IF Len(d.int) > 1 /\ d.int[Len(d.int)] = "0"
    THEN DecReduce([d EXCEPT !.int = SubSeq(d.int, 1, Len(d.int) - 1),
                             !.exp = d.exp + 1])
    ELSE d

\* a == b, Decimal.__eq__: numeric equality (5.50 == 5.5, 0 == -0.00);
\* a NaN equals nothing
DecEq(a, b) ==
    IF IsSpecial(a) \/ IsSpecial(b)
    THEN /\ IsSpecial(a) /\ IsSpecial(b)
         /\ a.special = "Infinity" /\ b.special = "Infinity"
         /\ a.sign = b.sign
    ELSE IF DecIsZero(a) \/ DecIsZero(b) THEN DecIsZero(a) /\ DecIsZero(b)
    ELSE DecReduce(a) = DecReduce(b)

\* ------------------------------------------------------------------------
\* Results of a call: a returned value or a raised exception
\* ------------------------------------------------------------------------

Return(v) == [ok |-> TRUE, value |-> v]

Raise(e) == [ok |-> FALSE, value |-> e]

\* ------------------------------------------------------------------------
\* JSON values as json.load gives them to the code
\*   [t |-> "null"]                 None
\*   [t |-> "bool", b |-> b]        True / False (an int to isinstance)
\*   [t |-> "num", days |-> d, secs |-> s]
\*                                  the finite number d * 86400 + s, with
\*                                  0 <= s < 86400 (whole numbers; a float
\*                                  amount behaves as the string of its repr,
\*                                  since str() is all the code applies to it)
\*   [t |-> "nonfinite", text |-> s]
\*                                  the floats nan, inf, -inf (JSON NaN,
\*                                  Infinity, or a literal such as 1E400),
\*                                  s what str() gives
\*   [t |-> "str", chars |-> s]     a string
\*   [t |-> "list", n |-> n]        a list of n elements (a dict behaves alike)
\* ------------------------------------------------------------------------

JNull == [t |-> "null"]

JBool(b) == [t |-> "bool", b |-> b]

JNum(d, s) == [t |-> "num", days |-> d, secs |-> s]

\* a number small enough to be written out
JInt(n) == JNum(n \div 86400, n % 86400)

JNonFinite(s) == [t |-> "nonfinite", text |-> s]

JStr(chars) == [t |-> "str", chars |-> chars]

JList(n) == [t |-> "list", n |-> n]

\* d.get(key) of a key that holds a JSON value: None for a missing key and
\* for a null
GetJson(x) == IF x # None /\ x[1].t = "null" THEN None ELSE x

\* str(x) of a JSON value that is not null
PyStr(j) ==
    CASE j.t = "str"       -> j.chars
      [] j.t = "num"       ->
            LET n == j.days * 86400 + j.secs
            IN  IF n < 0 THEN <<"-">> \o NatToStr(0 - n) ELSE NatToStr(n)
      [] j.t = "nonfinite" -> j.text
      [] j.t = "bool"      -> IF j.b THEN <<"T", "r", "u", "e">>
                              ELSE <<"F", "a", "l", "s", "e">>
      [] j.t = "list"      -> <<"[">> \o (IF j.n > 0 THEN <<".">> ELSE <<>>)
                              \o <<"]">>

\* bool(x) of an optional JSON value (a missing key reads as None)
Truthy(x) ==
    /\ x # None
    /\ LET j == x[1]
       IN  CASE j.t = "null"      -> FALSE
             [] j.t = "bool"      -> j.b
             [] j.t = "num"       -> j.days # 0 \/ j.secs # 0
             [] j.t = "nonfinite" -> TRUE
             [] j.t = "str"       -> Len(j.chars) > 0
             [] j.t = "list"      -> j.n > 0

\* ------------------------------------------------------------------------
\* datetime: calendar arithmetic, fromtimestamp, fromisoformat
\* ------------------------------------------------------------------------

SecondsPerDay == 86400

\* datetime.fromtimestamp accepts the local times from 0001-01-02 (one day
\* in, for the fold probe it makes) to 9999-12-31, here as days since 1970
MinTimestampDay == -719161

MaxTimestampDay == 2932896

IsLeap(y) == (y % 4 = 0) /\ ((y % 100 # 0) \/ (y % 400 = 0))

DaysInMonth(y, m) ==
    IF m = 2 THEN (IF IsLeap(y) THEN 29 ELSE 28)
    ELSE IF m \in {4, 6, 9, 11} THEN 30
    ELSE 31

\* the date y-m-d as days since 1970-01-01 (proleptic Gregorian)
DaysFromCivil(y, m, d) ==
    LET yy  == IF m <= 2 THEN y - 1 ELSE y
        era == yy \div 400
        yoe == yy - era * 400
        mp  == IF m > 2 THEN m - 3 ELSE m + 9
        doy == (153 * mp + 2) \div 5 + d - 1
        doe == yoe * 365 + yoe \div 4 - yoe \div 100 + doy
    IN  era * 146097 + doe - 719468

\* datetime.fromtimestamp(v).date() for a number v, in the local time zone
\* (offset tzOffset seconds east of UTC): the date, or ValueError for a NaN
\* and for a time outside the accepted years, OverflowError for an infinity
FromTimestampDate(j, tzOffset) ==
    IF j.t = "nonfinite"
    THEN (IF j.text = <<"n", "a", "n">> THEN Raise("ValueError")
          ELSE Raise("OverflowError"))
    ELSE LET days  == IF j.t = "bool" THEN 0 ELSE j.days
             secs  == IF j.t = "bool" THEN (IF j.b THEN 1 ELSE 0) ELSE j.secs
             local == days + ((secs + tzOffset) \div SecondsPerDay)
         IN  IF local < MinTimestampDay \/ local > MaxTimestampDay
             THEN Raise("ValueError")
             ELSE Return(Some(local))

\* value.replace("Z", "+00:00"): every "Z" of the text, not only a last one
RECURSIVE ReplaceZ(_)
ReplaceZ(s) ==
    IF Len(s) = 0 THEN <<>>
    ELSE (IF s[1] = "Z" THEN <<"+", "0", "0", ":", "0", "0">> ELSE <<s[1]>>)
         \o ReplaceZ(Tail(s))

\* two digits at s[i], s[i+1]
TwoDigits(s, i) == Len(s) >= i + 1 /\ IsDigit(s[i]) /\ IsDigit(s[i + 1])

TwoDigitVal(s, i) == 10 * DigitVal(s[i]) + DigitVal(s[i + 1])

\* whether s is n two-digit parts joined by ":", then nothing or a
\* fraction ("." or "," and at least one digit)
ClockShape(s, n) ==
    /\ Len(s) >= 3 * n - 1
    /\ \A k \in 1..n : TwoDigits(s, 3 * k - 2)
    /\ \A k \in 1..(n - 1) : s[3 * k] = ":"
    /\ \/ Len(s) = 3 * n - 1
       \/ /\ Len(s) >= 3 * n + 1
          /\ s[3 * n] \in {".", ","}
          /\ AllDigits(SubSeq(s, 3 * n + 1, Len(s)))

\* part k (1: hours, 2: minutes, 3: seconds) of a clock of n parts, 0 when
\* it is not written
ClockPart(s, n, k) == IF k <= n THEN TwoDigitVal(s, 3 * k - 2) ELSE 0

\* HH[:MM[:SS]][.f] as a time of day: every part within its range
IsoClockValid(s) ==
    \E n \in 1..3 :
        /\ ClockShape(s, n)
        /\ ClockPart(s, n, 1) < 24
        /\ ClockPart(s, n, 2) < 60
        /\ ClockPart(s, n, 3) < 60

\* HH[:MM[:SS]][.f] as a UTC offset: the parts are not range-checked, the
\* whole must be less than 24 hours
IsoOffsetValid(s) ==
    \E n \in 1..3 :
        /\ ClockShape(s, n)
        /\ ClockPart(s, n, 1) * 3600 + ClockPart(s, n, 2) * 60
             + ClockPart(s, n, 3) < SecondsPerDay

\* the time part of an ISO text: a clock, then optionally a UTC offset
\* after the first "+" or "-"
IsoTimeValid(s) ==
    LET plus  == FindChar(s, "+")
        minus == FindChar(s, "-")
        tzPos == IF plus = 0 THEN minus
                 ELSE IF minus = 0 THEN plus
                 ELSE IF plus < minus THEN plus ELSE minus
    IN  IF tzPos = 0 THEN IsoClockValid(s)
        ELSE /\ IsoClockValid(SubSeq(s, 1, tzPos - 1))
             /\ IsoOffsetValid(SubSeq(s, tzPos + 1, Len(s)))

\* datetime.fromisoformat(s).date(): the date written in s (no conversion to
\* another time zone), or ValueError.  Extended format, any separator:
\* YYYY-MM-DD[*HH[:MM[:SS]][.f][(+|-)HH[:MM[:SS]][.f]]]
\* (the basic format without "-" and ":" and week dates are not modelled)
FromIsoFormatDate(s) ==
    IF /\ Len(s) >= 10
       /\ AllDigits(SubSeq(s, 1, 4)) /\ s[5] = "-"
       /\ AllDigits(SubSeq(s, 6, 7)) /\ s[8] = "-"
       /\ AllDigits(SubSeq(s, 9, 10))
    THEN LET y == StrToNat(SubSeq(s, 1, 4))
             m == StrToNat(SubSeq(s, 6, 7))
             d == StrToNat(SubSeq(s, 9, 10))
         IN  IF /\ y >= 1 /\ m \in 1..12 /\ d >= 1 /\ d <= DaysInMonth(y, m)
                /\ (Len(s) > 10 => IsoTimeValid(SubSeq(s, 12, Len(s))))
             THEN Return(Some(DaysFromCivil(y, m, d)))
             ELSE Raise("ValueError")
    ELSE Raise("ValueError")

\* SimpleFINImporter._parse_date(value): Return(Some(date)), Return(None),
\* or the exception that escapes it
ParseDate(value, tzOffset) ==
    IF value.t \in {"bool", "num", "nonfinite"}
    THEN FromTimestampDate(value, tzOffset)
    ELSE IF value.t = "str"
    THEN LET r == FromIsoFormatDate(ReplaceZ(value.chars))
         IN  IF r.ok THEN r ELSE Return(None)
    ELSE Return(None)

\* ------------------------------------------------------------------------
\* beancount.core directives
\* ------------------------------------------------------------------------

FLAG_OKAY == "*"

EMPTY_SET == {}

\* data.new_metadata(filename, lineno), with the optional simplefin_id key
NewMetadata(filename, lineno, simplefin_id) ==
    [filename |-> filename, lineno |-> lineno, simplefin_id |-> simplefin_id]

\* amount.Amount(number, currency)
Amount(number, currency) == [number |-> number, currency |-> currency]

\* data.Posting(account, units, cost, price, flag, meta)
Posting(account, units, cost, price, flag, meta) ==
    [account |-> account, units |-> units, cost |-> cost, price |-> price,
     flag |-> flag, meta |-> meta]

\* data.Transaction(meta, date, flag, payee, narration, tags, links, postings)
Transaction(meta, date, flag, payee, narration, tags, links, postings) ==
    [type |-> "Transaction", meta |-> meta, date |-> date, flag |-> flag,
     payee |-> payee, narration |-> narration, tags |-> tags, links |-> links,
     postings |-> postings]

\* data.Balance(meta, date, account, amount, tolerance, diff_amount)
Balance(meta, date, account, amount, tolerance, diff_amount) ==
    [type |-> "Balance", meta |-> meta, date |-> date, account |-> account,
     amount |-> amount, tolerance |-> tolerance, diff_amount |-> diff_amount]

\* isinstance(entry, Transaction)
IsTransaction(entry) == entry.type = "Transaction"

\* a == b of two Amount tuples: numbers by Decimal.__eq__, currencies as text
AmountEq(a, b) == DecEq(a.number, b.number) /\ a.currency = b.currency

\* p1.units != p2.units of two optional Amounts
UnitsDiffer(u1, u2) ==
    IF u1 = None \/ u2 = None THEN ~(u1 = None /\ u2 = None)
    ELSE ~AmountEq(u1[1], u2[1])

\* ------------------------------------------------------------------------
\* SimpleFINImporter
\* ------------------------------------------------------------------------

\* SimpleFINImporter.__init__
NewImporter(account_mapping, currency, expense_account, income_account) ==
    [account_mapping |-> account_mapping, currency |-> currency,
     expense_account |-> expense_account, income_account |-> income_account]

\* TxnMeta defaulting the id to "Unknown", as the narration does
TxnMeta_UnknownId(txn, filepath) ==
    NewMetadata(filepath, 0, Some(GetOr(txn.id, "Unknown")))

\* _extract_transaction, "Build metadata": the entry's metadata, with the
\* source id, "" when the transaction has none
TxnMeta(txn, filepath) == NewMetadata(filepath, 0, Some(GetOr(txn.id, "")))

\* _extract_transaction, posting1: the amount on the account of the file,
\* with the source id as its metadata
Posting1(txn, amt, account_name, currency) ==
    Posting(account_name, Some(Amount(amt, currency)), None, None, None,
            Some([simplefin_id |-> GetOr(txn.id, "")]))

\* CounterAccount with amt <= 0: a zero amount goes to the expense account
CounterAccount_ZeroIsExpense(self, amt) ==
    IF DecLtZero(amt) \/ DecIsZero(amt) THEN self.expense_account
    ELSE self.income_account

\* _extract_transaction, counter_account
CounterAccount(self, amt) ==
    IF DecLtZero(amt) THEN self.expense_account ELSE self.income_account

\* _extract_transaction, posting2
Posting2(self, amt) ==
    Posting(CounterAccount(self, amt), None, None, None, None, None)

\* BuildTransaction with the counter posting first
BuildTransaction_CounterFirst(self, txn, txn_date, amt, account_name, currency, filepath) ==
    IF DecIsNaN(amt) THEN Raise("InvalidOperation")
    ELSE Return(Some(Transaction(
            TxnMeta(txn, filepath), txn_date, FLAG_OKAY, None,
            GetOr(txn.description, "Unknown"), EMPTY_SET, EMPTY_SET,
            <<Posting2(self, amt),
              Posting1(txn, amt, account_name, currency)>>)))

\* _extract_transaction from "Build metadata" on: the Transaction of date
\* txn_date and amount amt, or InvalidOperation when amt < 0 compares a NaN
BuildTransaction(self, txn, txn_date, amt, account_name, currency, filepath) ==
    IF DecIsNaN(amt) THEN Raise("InvalidOperation")
    ELSE Return(Some(Transaction(
            TxnMeta(txn, filepath), txn_date, FLAG_OKAY, None,
            GetOr(txn.description, "Unknown"), EMPTY_SET, EMPTY_SET,
            <<Posting1(txn, amt, account_name, currency),
              Posting2(self, amt)>>)))

\* _extract_transaction from "if txn_date is None" on, txn_date being what
\* _parse_date(posted) gave
ExtractDated(self, txn, txn_date, account_name, currency, filepath) ==
    IF ~txn_date.ok THEN txn_date
    ELSE IF txn_date.value = None THEN Return(None)
    ELSE IF GetJson(txn.amount) = None THEN Return(None)
    ELSE IF DecimalOf(PyStr(txn.amount[1])) = InvalidOperation
         THEN Raise("InvalidOperation")
    ELSE BuildTransaction(self, txn, txn_date.value[1],
                          DecimalOf(PyStr(txn.amount[1])),
                          account_name, currency, filepath)

\* ExtractTransaction without its "Skip pending transactions"
ExtractTransaction_NoPendingCheck(self, tz, txn, account_name, currency, filepath) ==
    IF ~Truthy(GetJson(txn.posted)) THEN Return(None)
    ELSE ExtractDated(self, txn, ParseDate(txn.posted[1], tz),
                      account_name, currency, filepath)

\* SimpleFINImporter._extract_transaction: Return(Some(transaction)),
\* Return(None) for a skipped transaction, or the exception that escapes.
\* tz is the local time zone of the process, read by _parse_date.
ExtractTransaction(self, tz, txn, account_name, currency, filepath) ==
    IF ~Truthy(GetJson(txn.posted)) THEN Return(None)
    ELSE IF Truthy(GetJson(txn.pending)) THEN Return(None)
    ELSE ExtractDated(self, txn, ParseDate(txn.posted[1], tz),
                      account_name, currency, filepath)

\* _make_balance from "if parsed_date is None" on
BalanceDated(parsed_date, account_name, balance, currency, filepath) ==
    IF ~parsed_date.ok THEN parsed_date
    ELSE IF parsed_date.value = None THEN Return(None)
    ELSE IF DecimalOf(PyStr(balance)) = InvalidOperation
         THEN Raise("InvalidOperation")
    ELSE Return(Some(Balance(NewMetadata(filepath, 0, None),
                             parsed_date.value[1], account_name,
                             Amount(DecimalOf(PyStr(balance)), currency),
                             None, None)))

\* SimpleFINImporter._make_balance
MakeBalance(tz, account_name, balance, balance_date, currency, filepath) ==
    BalanceDated(ParseDate(balance_date, tz), account_name, balance, currency,
                 filepath)

\* bool(id) of an optional simplefin_id: present and not empty
IdTruthy(id) == id # None /\ id[1] # ""

\* CmpFallback without its comparison of the units
CmpFallback_NoUnits(entry1, entry2) ==
    IF entry1.date # entry2.date THEN FALSE
    ELSE IF Len(entry1.postings) > 0 /\ Len(entry2.postings) > 0
    THEN entry1.postings[1].account = entry2.postings[1].account
    ELSE TRUE

\* CmpFallback for which an entry without postings matches nothing
CmpFallback_EmptyNeverMatches(entry1, entry2) ==
    IF entry1.date # entry2.date THEN FALSE
    ELSE IF Len(entry1.postings) > 0 /\ Len(entry2.postings) > 0
    THEN /\ entry1.postings[1].account = entry2.postings[1].account
         /\ ~UnitsDiffer(entry1.postings[1].units, entry2.postings[1].units)
    ELSE FALSE

\* cmp, "Fall back to default comparison (date, amount, account)"
CmpFallback(entry1, entry2) ==
    IF entry1.date # entry2.date THEN FALSE
    ELSE IF Len(entry1.postings) > 0 /\ Len(entry2.postings) > 0
    THEN IF entry1.postings[1].account # entry2.postings[1].account
         THEN FALSE
         ELSE IF UnitsDiffer(entry1.postings[1].units,
                             entry2.postings[1].units)
         THEN FALSE
         ELSE TRUE
    ELSE TRUE

\* CmpTransactions asking for equal dates besides equal ids
CmpTransactions_IdAndDate(entry1, entry2) ==
    IF IdTruthy(entry1.meta.simplefin_id) /\ IdTruthy(entry2.meta.simplefin_id)
    THEN /\ entry1.meta.simplefin_id[1] = entry2.meta.simplefin_id[1]
         /\ entry1.date = entry2.date
    ELSE IF IdTruthy(entry1.meta.simplefin_id)
            \/ IdTruthy(entry2.meta.simplefin_id)
    THEN FALSE
    ELSE CmpFallback(entry1, entry2)

\* CmpTransactions without its "if id1 or id2" test: an entry with an id and
\* one without are compared by date, account and amount
CmpTransactions_OneIdFallsBack(entry1, entry2) ==
    IF IdTruthy(entry1.meta.simplefin_id) /\ IdTruthy(entry2.meta.simplefin_id)
    THEN entry1.meta.simplefin_id[1] = entry2.meta.simplefin_id[1]
    ELSE CmpFallback(entry1, entry2)

\* CmpTransactions without the fall back: duplicates by simplefin_id only
CmpTransactions_OnlyById(entry1, entry2) ==
    IF IdTruthy(entry1.meta.simplefin_id) /\ IdTruthy(entry2.meta.simplefin_id)
    THEN entry1.meta.simplefin_id[1] = entry2.meta.simplefin_id[1]
    ELSE FALSE

\* cmp of two Transactions: by simplefin_id when both have one
CmpTransactions(entry1, entry2) ==
    IF IdTruthy(entry1.meta.simplefin_id) /\ IdTruthy(entry2.meta.simplefin_id)
    THEN entry1.meta.simplefin_id[1] = entry2.meta.simplefin_id[1]
    ELSE IF IdTruthy(entry1.meta.simplefin_id)
            \/ IdTruthy(entry2.meta.simplefin_id)
    THEN FALSE
    ELSE CmpFallback(entry1, entry2)

\* cmp comparing the ids before it looks at the types of the entries
Cmp_IdBeforeType(entry1, entry2) ==
    IF IdTruthy(entry1.meta.simplefin_id) /\ IdTruthy(entry2.meta.simplefin_id)
    THEN entry1.meta.simplefin_id[1] = entry2.meta.simplefin_id[1]
    ELSE IF ~IsTransaction(entry1) \/ ~IsTransaction(entry2) THEN FALSE
    ELSE CmpTransactions(entry1, entry2)

\* SimpleFINImporter.cmp
Cmp(entry1, entry2) ==
    IF ~IsTransaction(entry1) \/ ~IsTransaction(entry2) THEN FALSE
    ELSE CmpTransactions(entry1, entry2)

\* InsertByDate putting e before the entries of its own date
InsertByDate_BeforeEqual(sorted, e) ==
    LET k == Cardinality({i \in 1..Len(sorted) : sorted[i].date < e.date})
    IN  SubSeq(sorted, 1, k) \o <<e>> \o SubSeq(sorted, k + 1, Len(sorted))

\* entries.sort(key=lambda e: e.date): a stable sort, so entries of one date
\* keep their order.  InsertByDate puts e behind every entry of sorted whose
\* date is not later.
InsertByDate(sorted, e) ==
    LET k == Cardinality({i \in 1..Len(sorted) : sorted[i].date <= e.date})
    IN  SubSeq(sorted, 1, k) \o <<e>> \o SubSeq(sorted, k + 1, Len(sorted))

RECURSIVE SortByDate(_)
SortByDate(es) ==
    IF Len(es) = 0 THEN <<>>
    ELSE InsertByDate(SortByDate(SubSeq(es, 1, Len(es) - 1)), es[Len(es)])

\* the values returned (Some(entry)) among the results rs, in order
RECURSIVE Collect(_)
Collect(rs) ==
    IF Len(rs) = 0 THEN <<>>
    ELSE (IF rs[1].ok /\ rs[1].value # None THEN rs[1].value ELSE <<>>)
         \o Collect(Tail(rs))

\* index of the first result of rs that is an exception, 0 when none is
FirstRaise(rs) ==
    IF \E i \in 1..Len(rs) : ~rs[i].ok
    THEN CHOOSE i \in 1..Len(rs) : ~rs[i].ok /\ \A j \in 1..(i - 1) : rs[j].ok
    ELSE 0

\* extract's "Sort by date" and return, or the exception of _make_balance
ExtractFinish(all, bal_entry) ==
    IF ~bal_entry.ok THEN [calls |-> all, result |-> bal_entry]
    ELSE [calls  |-> all,
          result |-> Return(SortByDate(Collect(all) \o bal_entry.value))]

\* extract's "Add balance assertion if available": what _make_balance gave,
\* Return(None) when it is not called
BalanceEntry(tz, account_data, beancount_account, currency, filepath) ==
    IF GetJson(account_data.balance) # None
       /\ Truthy(GetJson(account_data.balance_date))
    THEN MakeBalance(tz, beancount_account, account_data.balance[1],
                     account_data.balance_date[1], currency, filepath)
    ELSE Return(None)

\* extract after its loop over the transactions, all being what the calls of
\* _extract_transaction give: the first exception among them ends extract
ExtractAfterLoop(tz, account_data, beancount_account, currency, filepath, all) ==
    IF FirstRaise(all) # 0
    THEN [calls  |-> SubSeq(all, 1, FirstRaise(all)),
          result |-> all[FirstRaise(all)]]
    ELSE ExtractFinish(all, BalanceEntry(tz, account_data, beancount_account,
                                         currency, filepath))

\* extract for an account of the mapping
ExtractMapped(self, tz, account_data, beancount_account, currency, filepath) ==
    ExtractAfterLoop(
        tz, account_data, beancount_account, currency, filepath,
        [i \in 1..Len(GetOr(account_data.transactions, <<>>)) |->
            ExtractTransaction(self, tz, account_data.transactions[1][i],
                               beancount_account, currency, filepath)])

\* ExtractRun importing a record of an unmapped id to a default account
ExtractRun_DefaultAccount(self, tz, account_data, filepath) ==
    IF account_data.id = None
    THEN [calls |-> <<>>, result |-> Return(<<>>)]
    ELSE ExtractMapped(self, tz, account_data,
                       IF account_data.id[1] \in DOMAIN self.account_mapping
                       THEN self.account_mapping[account_data.id[1]]
                       ELSE "Assets:Unknown",
                       GetOr(account_data.currency, self.currency), filepath)

\* ExtractRun that ignores the currency of the record
ExtractRun_ImporterCurrency(self, tz, account_data, filepath) ==
    IF \/ account_data.id = None
       \/ account_data.id[1] \notin DOMAIN self.account_mapping
    THEN [calls |-> <<>>, result |-> Return(<<>>)]
    ELSE ExtractMapped(self, tz, account_data,
                       self.account_mapping[account_data.id[1]],
                       self.currency, filepath)

\* SimpleFINImporter.extract on the loaded account_data.  calls is what each
\* call of _extract_transaction made by the loop gave, in order, up to the
\* first exception; result is what extract returns or raises.
ExtractRun(self, tz, account_data, filepath) ==
    IF \/ account_data.id = None
       \/ account_data.id[1] \notin DOMAIN self.account_mapping
    THEN [calls |-> <<>>, result |-> Return(<<>>)]
    ELSE ExtractMapped(self, tz, account_data,
                       self.account_mapping[account_data.id[1]],
                       GetOr(account_data.currency, self.currency), filepath)

\* ------------------------------------------------------------------------
\* Inputs: the importer, the account files, the ledger entries
\* ------------------------------------------------------------------------

\* most transactions of one account file
MaxTxns == 2

\* most postings of a ledger transaction handed to cmp
MaxPostings == 2

\* most zeros between the decimal point and the last digits of a swept amount
MaxFracZeros == 7

FilePath == "account.json"

AccountMapping == [a \in {"ACT-123"} |-> "Assets:Checking"]

\* the importer with its default arguments, and one with every argument given
Importers ==
    {NewImporter(AccountMapping, "USD", "Expenses:Uncategorized",
                 "Income:Uncategorized"),
     NewImporter(AccountMapping, "CAD", "Expenses:Food", "Income:Salary")}

\* local time zones: UTC and UTC-5
TZOffsets == {0, -18000}

\* one transaction of an account file; every key is optional
RawTxn(id, posted, pending, description, amount) ==
    [id |-> id, posted |-> posted, pending |-> pending,
     description |-> description, amount |-> amount]

\* an account file as json.load gives it; every key is optional
RawAccount(id, currency, transactions, balance, balance_date) ==
    [id |-> id, currency |-> currency, transactions |-> transactions,
     balance |-> balance, balance_date |-> balance_date]

\* 1995-02-18T00:00:00Z, the timestamp of the test suite
Epoch1995 == JInt(793065600)

\* a timestamp in the year 10000
EpochTooLate == JNum(MaxTimestampDay + 1, 0)

Iso2024Z == JStr(<<"2", "0", "2", "4", "-", "0", "6", "-", "1", "5", "T", "1", "2", ":", "0", "0", ":", "0", "0", "Z">>)

Iso1990Offset == JStr(<<"1", "9", "9", "0", "-", "0", "1", "-", "0", "1", "T", "2", "3", ":", "3", "0", ":", "0", "0", "+", "0", "5", ":", "0", "0">>)

Iso1995 == JStr(<<"1", "9", "9", "5", "-", "0", "2", "-", "1", "8">>)

NotADateText == JStr(<<"n", "o", "t", "-", "a", "-", "d", "a", "t", "e">>)

AmtText(chars) == Some(JStr(chars))

\* posted values: missing, null, zero, the empty string, valid timestamps and
\* ISO texts, an unparseable text, a list, True, NaN, a time out of range
PostedValues ==
    {None, Some(JNull), Some(JInt(0)), Some(JStr(<<>>)), Some(Epoch1995),
     Some(Iso2024Z), Some(Iso1995), Some(NotADateText), Some(JList(1)),
     Some(JBool(TRUE)), Some(JNonFinite(<<"n", "a", "n">>)),
     Some(EpochTooLate)}

PendingValues == {None, Some(JBool(TRUE)), Some(JBool(FALSE))}

\* amounts: missing, null, decimal texts, texts that are no number, numbers,
\* a NaN, True
AmountValues ==
    {None, Some(JNull), AmtText(<<"-", "5", ".", "5", "0">>), AmtText(<<"1", "0", "0", "0", ".", "0", "0">>), AmtText(<<"0", ".", "0", "0">>),
     AmtText(<<"-", "0", ".", "0", "0">>), AmtText(<<"0", ".", "0", "0", "0", "0", "0", "0", "1">>), AmtText(<<"+", "5", ".", "5", "0">>), AmtText(<<"a", "b", "c">>),
     AmtText(<<>>), AmtText(<<"N", "a", "N">>), Some(JInt(100)),
     Some(JInt(-3)), Some(JBool(TRUE)),
     Some(JNonFinite(<<"-", "i", "n", "f">>))}

DescriptionValues == {None, Some("Coffee")}

IdValues == {None, Some(""), Some("TRN-001")}

\* every combination of the field values above
AllRawTxns ==
    {RawTxn(id, posted, pending, description, amount) :
        id \in IdValues, posted \in PostedValues, pending \in PendingValues,
        description \in DescriptionValues, amount \in AmountValues}

\* decimal texts [-]I[.0..0T]: an integer part, and optionally a fraction of
\* up to MaxFracZeros zeros and then the digits T
SweptAmountTexts ==
    {sign \o int \o frac :
        sign \in {<<>>, <<"-">>},
        int  \in {<<"0">>, <<"5">>, <<"1", "2">>},
        frac \in {<<>>} \cup
                 {<<".">> \o Zeros(k) \o tail :
                     k \in 0..MaxFracZeros,
                     tail \in {<<"0">>, <<"5">>, <<"5", "0">>}}}

SweptTxns ==
    {RawTxn(Some("TRN-001"), Some(Epoch1995), None, Some("Coffee"),
            AmtText(a)) : a \in SweptAmountTexts}

\* the transactions that account files of several are made of: settled and
\* valid ones of three dates (two on one date), pending ones (one of them
\* with fields that would raise), skipped ones, and two that raise
ListTxns ==
    {RawTxn(Some("TRN-001"), Some(Epoch1995), None, Some("Coffee"),
            AmtText(<<"-", "5", ".", "5", "0">>)),
     RawTxn(Some("TRN-002"), Some(Iso2024Z), Some(JBool(FALSE)),
            Some("Salary"), AmtText(<<"1", "0", "0", "0", ".", "0", "0">>)),
     RawTxn(None, Some(Iso1990Offset), None, None, AmtText(<<"0", ".", "0", "0">>)),
     RawTxn(Some("TRN-003"), Some(Iso1995), None, Some("Tea"),
            AmtText(<<"1", "0", "0", "0", ".", "0", "0">>)),
     RawTxn(Some("TRN-004"), Some(Epoch1995), Some(JBool(TRUE)),
            Some("Hold"), AmtText(<<"-", "5", ".", "5", "0">>)),
     RawTxn(Some("TRN-005"), Some(EpochTooLate), Some(JBool(TRUE)),
            Some("Hold"), AmtText(<<"a", "b", "c">>)),
     RawTxn(Some("TRN-006"), None, None, Some("Coffee"), AmtText(<<"-", "5", ".", "5", "0">>)),
     RawTxn(Some("TRN-007"), Some(NotADateText), None, Some("Coffee"),
            AmtText(<<"-", "5", ".", "5", "0">>)),
     RawTxn(Some("TRN-008"), Some(Epoch1995), None, Some("Coffee"), None),
     RawTxn(Some("TRN-009"), Some(EpochTooLate), None, Some("Coffee"),
            AmtText(<<"-", "5", ".", "5", "0">>)),
     RawTxn(Some("TRN-010"), Some(Epoch1995), None, Some("Coffee"),
            AmtText(<<"a", "b", "c">>))}

\* the sequences of at most n elements of S
SeqsUpTo(S, n) == UNION {[1..k -> S] : k \in 0..n}

\* balance and balance-date of an account file: none, a valid pair, a
\* balance without date, an unparseable date, and two pairs that raise
BalanceValues ==
    {<<None, None>>,
     <<Some(JInt(100)), Some(Epoch1995)>>,
     <<AmtText(<<"1", "0", "0", "0", ".", "0", "0">>), Some(Iso2024Z)>>,
     <<Some(JInt(100)), None>>,
     <<Some(JInt(100)), Some(NotADateText)>>,
     <<AmtText(<<"a", "b", "c">>), Some(Epoch1995)>>,
     <<Some(JInt(100)), Some(EpochTooLate)>>}

\* account files of several transactions
ListAccounts ==
    {RawAccount(id, currency, Some(txns), b[1], b[2]) :
        id \in {None, Some("ACT-123"), Some("ACT-999")},
        currency \in {None, Some("EUR")},
        txns \in SeqsUpTo(ListTxns, MaxTxns),
        b \in BalanceValues}

\* account files of one transaction, of every combination of field values or
\* of a swept amount
SingleAccounts ==
    {RawAccount(Some("ACT-123"), None, Some(<<txn>>), None, None) :
        txn \in AllRawTxns \cup SweptTxns}

\* an account file without a transactions key
BareAccounts ==
    {RawAccount(Some("ACT-123"), None, None, b[1], b[2]) : b \in BalanceValues}

AccountFiles == ListAccounts \cup SingleAccounts \cup BareAccounts

\* ledger entries handed to cmp: what extract builds, and entries of other
\* origin (no simplefin_id key, any number of postings)

CmpDates == {9179, 9180}

CmpIds == {None, Some(""), Some("TRN-001"), Some("TRN-002")}

CmpUnits ==
    {None,
     Some(Amount(DecimalOf(<<"-", "5", "0", ".", "0", "0">>), "USD")),
     Some(Amount(DecimalOf(<<"-", "5", "0", ".", "0">>), "USD")),
     Some(Amount(DecimalOf(<<"-", "7", "5", ".", "0", "0">>), "USD")),
     Some(Amount(DecimalOf(<<"-", "5", "0", ".", "0", "0">>), "EUR"))}

\* first postings: on the main account
PrimaryPostings ==
    {Posting(account, units, None, None, None, None) :
        account \in {"Assets:Checking", "Assets:Savings"}, units \in CmpUnits}

\* the postings after the first
CounterPostings ==
    {Posting(account, None, None, None, None, None) :
        account \in {"Expenses:Uncategorized", "Income:Uncategorized"}}

PostingLists ==
    {<<>>} \cup
    {<<p>> \o rest :
        p \in PrimaryPostings,
        rest \in SeqsUpTo(CounterPostings, MaxPostings - 1)}

LedgerTransactions ==
    {Transaction(NewMetadata("ledger.beancount", 0, id), date, FLAG_OKAY,
                 None, narration, EMPTY_SET, EMPTY_SET, postings) :
        id \in CmpIds, date \in CmpDates, narration \in {"Coffee", "Tea"},
        postings \in PostingLists}

LedgerBalances ==
    {Balance(NewMetadata("ledger.beancount", 0, id), date, "Assets:Checking",
             Amount(DecimalOf(<<"-", "5", "0", ".", "0", "0">>), "USD"), None, None) :
        id \in {None, Some("TRN-001")}, date \in CmpDates}

Directives == LedgerTransactions \cup LedgerBalances

\* ------------------------------------------------------------------------
\* The state machine
\* ------------------------------------------------------------------------

VARIABLES
    self,          \* the importer: account_mapping, currency, expense_account,
                   \* income_account
    tz,            \* the local time zone of the process, seconds east of UTC
    account_data,  \* the account file extract loads
    calls,         \* what each _extract_transaction call of extract's loop gave
    result,        \* what extract returned or raised
    entry1,        \* cmp's first argument
    entry2,        \* cmp's second argument
    duplicate,     \* what cmp returned
    reimport,      \* what a second extract of the same file returned or raised
    pc             \* "start", then "extracted" or "compared"

vars == <<self, tz, account_data, calls, result, entry1, entry2, duplicate, reimport, pc>>

NotCalled == [ok |-> FALSE, value |-> "not called"]

NoEntry == [type |-> "none"]

NoAccount == RawAccount(None, None, None, None, None)

\* an importer, and an account file about to be extracted
Init ==
    /\ self \in Importers
    /\ tz \in TZOffsets
    /\ account_data \in AccountFiles
    /\ calls = <<>>
    /\ result = NotCalled
    /\ entry1 = NoEntry
    /\ entry2 = NoEntry
    /\ duplicate = FALSE
    /\ reimport = NotCalled
    /\ pc = "start"

\* an importer, and two ledger entries about to be compared
InitCmp ==
    /\ self = NewImporter(AccountMapping, "USD", "Expenses:Uncategorized",
                          "Income:Uncategorized")
    /\ tz = 0
    /\ account_data = NoAccount
    /\ calls = <<>>
    /\ result = NotCalled
    /\ entry1 \in Directives
    /\ entry2 \in Directives
    /\ duplicate = FALSE
    /\ reimport = NotCalled
    /\ pc = "start"

\* extract(filepath, existing)
Extract ==
    /\ pc = "start"
    /\ \E run \in {ExtractRun(self, tz, account_data, FilePath)} :
           /\ calls' = run.calls
           /\ result' = run.result
    /\ pc' = "extracted"
    /\ UNCHANGED <<self, tz, account_data, entry1, entry2, duplicate, reimport>>

\* cmp(entry1, entry2)
Compare ==
    /\ pc = "start"
    /\ duplicate' = Cmp(entry1, entry2)
    /\ pc' = "compared"
    /\ UNCHANGED <<self, tz, account_data, calls, result, entry1, entry2, reimport>>

\* the account files of the mapped account
MappedAccountFiles == {a \in AccountFiles : a.id = Some("ACT-123")}

\* an importer, and the file of a mapped account about to be extracted twice
InitReimport ==
    /\ self \in Importers
    /\ tz \in TZOffsets
    /\ account_data \in MappedAccountFiles
    /\ calls = <<>>
    /\ result = NotCalled
    /\ entry1 = NoEntry
    /\ entry2 = NoEntry
    /\ duplicate = FALSE
    /\ reimport = NotCalled
    /\ pc = "start"

\* extract(filepath, existing) of the same file once more
ExtractAgain ==
    /\ pc = "extracted"
    /\ \E run \in {ExtractRun(self, tz, account_data, FilePath)} :
           reimport' = run.result
    /\ pc' = "reimported"
    /\ UNCHANGED <<self, tz, account_data, calls, result, entry1, entry2, duplicate>>

\* cmp of the entries that the two extractions have at one position
ComparePosition ==
    /\ pc = "reimported"
    /\ result.ok /\ reimport.ok
    /\ \E k \in 1..Len(result.value) :
           /\ k <= Len(reimport.value)
           /\ entry1' = result.value[k]
           /\ entry2' = reimport.value[k]
           /\ duplicate' = Cmp(result.value[k], reimport.value[k])
    /\ pc' = "compared"
    /\ UNCHANGED <<self, tz, account_data, calls, result, reimport>>

Next == Extract

NextReimport == Extract \/ ExtractAgain \/ ComparePosition

NextCmp == Compare

Spec == Init /\ [][Next]_vars

SpecCmp == InitCmp /\ [][NextCmp]_vars

SpecReimport == InitReimport /\ [][NextReimport]_vars

\* ------------------------------------------------------------------------
\* Properties of cmp, under SpecCmp
\* ------------------------------------------------------------------------

Compared == pc = "compared"

BothTransactions == IsTransaction(entry1) /\ IsTransaction(entry2)

HasId(entry) == IdTruthy(entry.meta.simplefin_id)

\* two optional amounts are equal: both missing, or the same number (as
\* numbers: -50.0 is -50.00) in the same currency
SameUnits(u1, u2) ==
    \/ u1 = None /\ u2 = None
    \/ /\ u1 # None /\ u2 # None
       /\ u1[1].currency = u2[1].currency
       /\ DecEq(u1[1].number, u2[1].number)

\* the first postings of two entries that have one agree in account and amount
SamePrimary(e1, e2) ==
    /\ e1.postings[1].account = e2.postings[1].account
    /\ SameUnits(e1.postings[1].units, e2.postings[1].units)

BothHavePostings == Len(entry1.postings) > 0 /\ Len(entry2.postings) > 0

\* C1: two Transactions that both carry a non-empty simplefin_id are
\* duplicates exactly when the ids are equal, whatever their dates,
\* narrations and postings.
C1_BothIdsCompareById ==
    (Compared /\ BothTransactions /\ HasId(entry1) /\ HasId(entry2))
    => (duplicate <=> entry1.meta.simplefin_id = entry2.meta.simplefin_id)

\* C1 happens: equal ids make duplicates of two Transactions that differ in
\* date, narration and postings.
C1_Witness ==
    /\ Compared /\ BothTransactions /\ HasId(entry1) /\ HasId(entry2)
    /\ entry1.meta.simplefin_id = entry2.meta.simplefin_id
    /\ entry1.date # entry2.date
    /\ entry1.narration # entry2.narration
    /\ BothHavePostings /\ ~SamePrimary(entry1, entry2)
    /\ duplicate

\* C2: when exactly one of two Transactions carries a non-empty simplefin_id
\* they are no duplicates, in either argument order.
C2_OneIdNeverDuplicate ==
    (Compared /\ BothTransactions /\ (HasId(entry1) # HasId(entry2)))
    => (~duplicate /\ ~Cmp(entry2, entry1))

\* C2 happens: an entry with an id and one with an empty id, equal in date,
\* account and amount, are no duplicates.
C2_Witness ==
    /\ Compared /\ BothTransactions
    /\ HasId(entry1) /\ entry2.meta.simplefin_id = Some("")
    /\ entry1.date = entry2.date
    /\ BothHavePostings /\ SamePrimary(entry1, entry2)
    /\ entry1.postings[1].units # None
    /\ ~duplicate

\* C3 as stated: two Transactions that both lack an id are duplicates exactly
\* when their dates and their first postings' accounts and amounts are equal
\* (an entry without postings has no first posting to agree with another's;
\* two entries without postings have none that disagree).
C3_AsStated ==
    (Compared /\ BothTransactions /\ ~HasId(entry1) /\ ~HasId(entry2))
    => (duplicate <=>
            /\ entry1.date = entry2.date
            /\ IF BothHavePostings THEN SamePrimary(entry1, entry2)
               ELSE Len(entry1.postings) = 0 /\ Len(entry2.postings) = 0)

\* C3 amended: two Transactions that both lack an id and both have at least
\* one posting are duplicates exactly when their dates and their first
\* postings' accounts and amounts are equal; narration and the other
\* postings are ignored.
C3_FallbackWithPostings ==
    (Compared /\ BothTransactions /\ ~HasId(entry1) /\ ~HasId(entry2)
        /\ BothHavePostings)
    => (duplicate <=>
            /\ entry1.date = entry2.date
            /\ SamePrimary(entry1, entry2))

\* C3 happens: without ids, equal dates and first postings make duplicates of
\* entries that differ in narration and counter posting.
C3_Witness ==
    /\ Compared /\ BothTransactions /\ ~HasId(entry1) /\ ~HasId(entry2)
    /\ Len(entry1.postings) = 2 /\ Len(entry2.postings) = 2
    /\ entry1.postings[1].units # None
    /\ SamePrimary(entry1, entry2)
    /\ entry1.postings[2] # entry2.postings[2]
    /\ entry1.narration # entry2.narration
    /\ entry1.date = entry2.date
    /\ duplicate

\* C4: cmp is false whenever one of the two entries is not a Transaction.
C4_OnlyTransactionsAreDuplicates ==
    (Compared /\ ~BothTransactions) => ~duplicate

\* C4 happens: a Transaction and a balance assertion of the same date and
\* the same simplefin_id are no duplicates.
C4_Witness ==
    /\ Compared
    /\ IsTransaction(entry1) /\ ~IsTransaction(entry2)
    /\ HasId(entry1)
    /\ entry1.meta.simplefin_id = entry2.meta.simplefin_id
    /\ entry1.date = entry2.date
    /\ ~duplicate

\* ------------------------------------------------------------------------
\* Properties of extract, under Spec
\* ------------------------------------------------------------------------

Extracted == pc = "extracted"

\* the record's id is a key of the account mapping
Mapped ==
    account_data.id # None /\ account_data.id[1] \in DOMAIN self.account_mapping

\* the raw transactions of the record
Txns == GetOr(account_data.transactions, <<>>)

IsPending(txn) == txn.pending = Some(JBool(TRUE))

NotPending(txn) == ~IsPending(txn)

\* the i-th call of the entry builder was made and gave a Transaction
Produced(i) == i \in DOMAIN calls /\ calls[i].ok /\ calls[i].value # None

\* the Transaction the i-th call gave
Entry(i) == calls[i].value[1]

\* the Transactions of extract's result
ResultTransactions == {k \in 1..Len(result.value) : IsTransaction(result.value[k])}

\* the record without its pending transactions
WithoutPending ==
    IF account_data.transactions = None THEN account_data
    ELSE [account_data EXCEPT
            !.transactions = Some(SelectSeq(Txns, NotPending))]

\* C5: a raw transaction with pending true is skipped by the entry builder
\* whatever its other fields hold, and extract gives for the record what it
\* gives for the record without its pending transactions: no entry for them,
\* the entries of the others unchanged.
C5_PendingSkipped ==
    (Extracted /\ Mapped)
    => /\ \A i \in DOMAIN calls : IsPending(Txns[i]) => calls[i] = Return(None)
       /\ result = ExtractRun(self, tz, WithoutPending, FilePath).result

\* C5 happens: a pending transaction whose posted and amount would raise is
\* skipped, and the settled transaction next to it is imported.
C5_Witness ==
    /\ Extracted /\ Mapped
    /\ Len(Txns) = 2
    /\ \E i \in 1..2 :
          /\ IsPending(Txns[i])
          /\ Txns[i].posted = Some(EpochTooLate)
          /\ Txns[i].amount = AmtText(<<"a", "b", "c">>)
          /\ Produced(3 - i)
    /\ result.ok
    /\ Cardinality(ResultTransactions) = 1

\* posted is present, truthy, and the date normalizer gives a date for it
ValidDate(txn) ==
    /\ Truthy(GetJson(txn.posted))
    /\ \E r \in {ParseDate(txn.posted[1], tz)} : r.ok /\ r.value # None

\* a transaction the import keeps: settled, of a valid date, with an amount
Remaining(txn) ==
    /\ NotPending(txn)
    /\ ValidDate(txn)
    /\ GetJson(txn.amount) # None

\* the amount is missing or the text of a number
WellFormedAmount(txn) ==
    \/ GetJson(txn.amount) = None
    \/ \E d \in {DecimalOf(PyStr(txn.amount[1]))} :
          d # InvalidOperation /\ ~DecIsNaN(d)

\* C6 as stated: for a mapped record (here without balance, every amount
\* missing or numeric) extract raises nothing and its result holds exactly one
\* Transaction for each transaction that is settled, of a valid date and with
\* an amount: the others are omitted.
C6_MalformedSkipped ==
    (/\ Extracted /\ Mapped
     /\ GetJson(account_data.balance) = None
     /\ \A i \in 1..Len(Txns) : WellFormedAmount(Txns[i]))
    => /\ result.ok
       /\ Cardinality(ResultTransactions)
            = Cardinality({i \in 1..Len(Txns) : Remaining(Txns[i])})

\* the source amount of a raw transaction, as the exact decimal of its text
SrcAmount(txn) == DecimalOf(PyStr(txn.amount[1]))

\* the number d is strictly negative: a minus sign, and a digit that is not
\* zero or an infinity (-0.00 is not negative)
StrictlyNegative(d) ==
    /\ d.sign = 1
    /\ \/ IsSpecial(d)
       \/ \E k \in 1..Len(d.int) : d.int[k] # "0"

\* C7: the counter (second) posting of every generated Transaction is on the
\* configured expense account exactly when the source amount is strictly
\* negative and on the configured income account otherwise, zero included,
\* whatever the other fields of the transaction, the record and the time zone.
C7_CounterAccountBySign ==
    Extracted =>
        \A i \in 1..Len(Txns) :
            Produced(i) =>
                Entry(i).postings[2].account
                    = IF StrictlyNegative(SrcAmount(Txns[i]))
                      THEN self.expense_account
                      ELSE self.income_account

\* C7 happens: with configured accounts, of the two Transactions of a record
\* the one of -5.50 has its counter posting on the expense account and the one
\* of 0.00 on the income account.
C7_Witness ==
    /\ Extracted /\ Len(Txns) = 2
    /\ self.expense_account = "Expenses:Food"
    /\ \E i \in 1..2 :
          /\ Produced(i) /\ Produced(3 - i)
          /\ Txns[i].amount = AmtText(<<"-", "5", ".", "5", "0">>)
          /\ Entry(i).postings[2].account = "Expenses:Food"
          /\ Txns[3 - i].amount = AmtText(<<"0", ".", "0", "0">>)
          /\ Entry(3 - i).postings[2].account = "Income:Salary"

\* the source amount is a string
TextAmount(txn) == txn.amount # None /\ txn.amount[1].t = "str"

\* the number of the primary posting of the i-th Transaction, stringified
PrimaryNumberStr(i) == DecimalStr(Entry(i).postings[1].units[1].number)

\* C8 as stated: for every source amount given as a string s, the primary
\* posting's amount number of the generated Transaction, stringified, is s.
C8_StrRoundTrip ==
    Extracted =>
        \A i \in 1..Len(Txns) :
            (Produced(i) /\ TextAmount(Txns[i]))
                => PrimaryNumberStr(i) = Txns[i].amount[1].chars

\* s is in plain notation: an optional "-", an integer part of digits without
\* superfluous leading zeros, and optionally "." and at least one digit
PlainCanonical(s) ==
    \E body \in {IF Len(s) > 0 /\ s[1] = "-" THEN Tail(s) ELSE s} :
    \E dot \in {FindChar(body, ".")} :
    \E int \in {IF dot = 0 THEN body ELSE SubSeq(body, 1, dot - 1)} :
    \E frac \in {IF dot = 0 THEN <<>> ELSE SubSeq(body, dot + 1, Len(body))} :
        /\ Len(int) > 0 /\ AllDigits(int)
        /\ (Len(int) > 1 => int[1] # "0")
        /\ (dot # 0 => Len(frac) > 0)
        /\ AllDigits(frac)

\* the value of the plain text s is not below the 10^-6 place: its integer
\* part is not 0, or a digit of its first six decimal places is not zero, or
\* it is a zero of at most six decimal places
NotTiny(s) ==
    \E body \in {IF Len(s) > 0 /\ s[1] = "-" THEN Tail(s) ELSE s} :
    \E dot \in {FindChar(body, ".")} :
    \E frac \in {IF dot = 0 THEN <<>> ELSE SubSeq(body, dot + 1, Len(body))} :
        \/ body[1] # "0"
        \/ \E k \in 1..Len(frac) : k <= 6 /\ frac[k] # "0"
        \/ Len(frac) <= 6

\* C8 amended: for every source amount given as a string s in plain notation
\* whose value is not below the 10^-6 place, the primary posting's amount
\* number, stringified, is s: trailing zeros and precision are kept.
C8_PlainRoundTrip ==
    Extracted =>
        \A i \in 1..Len(Txns) :
            (/\ Produced(i) /\ TextAmount(Txns[i])
             /\ PlainCanonical(Txns[i].amount[1].chars)
             /\ NotTiny(Txns[i].amount[1].chars))
                => PrimaryNumberStr(i) = Txns[i].amount[1].chars

\* C8 happens: -12.0000050, of seven decimal places, comes back as written.
C8_Witness ==
    /\ Extracted /\ Len(Txns) = 1 /\ Produced(1)
    /\ Txns[1].amount
         = AmtText(<<"-", "1", "2", ".", "0", "0", "0", "0", "0", "5", "0">>)
    /\ PrimaryNumberStr(1)
         = <<"-", "1", "2", ".", "0", "0", "0", "0", "0", "5", "0">>

\* the primary account and the currency of the entries of the record
PrimaryAccount == self.account_mapping[account_data.id[1]]

EntryCurrency == GetOr(account_data.currency, self.currency)

\* C9: every Transaction extract produces has exactly two postings: first the
\* primary posting on the account the record's id maps to, with the signed
\* source amount in the record's currency (the importer's when the record
\* names none), then a counter posting without amount and without metadata.
\* The Transactions of the result are those the entry builder produced.
C9_TwoPostings ==
    (Extracted /\ Mapped) =>
        /\ \A i \in 1..Len(Txns) :
              Produced(i) =>
                 /\ Len(Entry(i).postings) = 2
                 /\ Entry(i).postings[1].account = PrimaryAccount
                 /\ Entry(i).postings[1].units
                      = Some(Amount(SrcAmount(Txns[i]), EntryCurrency))
                 /\ Entry(i).postings[2].units = None
                 /\ Entry(i).postings[2].meta = None
        /\ result.ok =>
              \A k \in ResultTransactions :
                 \E i \in 1..Len(Txns) : Produced(i) /\ result.value[k] = Entry(i)

\* C9 happens: a record in EUR gives two Transactions, each with the amount
\* in EUR on Assets:Checking and an empty counter posting.
C9_Witness ==
    /\ Extracted /\ Mapped /\ result.ok
    /\ account_data.currency = Some("EUR")
    /\ Cardinality(ResultTransactions) = 2
    /\ \A k \in ResultTransactions :
          /\ Len(result.value[k].postings) = 2
          /\ result.value[k].postings[1].account = "Assets:Checking"
          /\ result.value[k].postings[1].units # None
          /\ result.value[k].postings[1].units[1].currency = "EUR"
          /\ result.value[k].postings[2].units = None
    /\ \E k \in ResultTransactions :
          StrictlyNegative(result.value[k].postings[1].units[1].number)

\* the id of a raw transaction, "" when it has none
SourceId(txn) == IF txn.id = None THEN "" ELSE txn.id[1]

\* C10: every Transaction extract produces carries the source transaction's
\* id, or "" when the source has none, as simplefin_id of its own metadata
\* and of its primary posting's metadata.
C10_ProvenanceId ==
    Extracted =>
        \A i \in 1..Len(Txns) :
            Produced(i) =>
                /\ Entry(i).meta.simplefin_id = Some(SourceId(Txns[i]))
                /\ Entry(i).postings[1].meta
                     = Some([simplefin_id |-> SourceId(Txns[i])])

\* C10 happens: of two Transactions, the one whose source has no id carries
\* "" and the other carries TRN-001, each in both places.
C10_Witness ==
    /\ Extracted /\ result.ok /\ Len(Txns) = 2
    /\ \E i \in 1..2 :
          /\ Produced(i) /\ Produced(3 - i)
          /\ Txns[i].id = None
          /\ Entry(i).meta.simplefin_id = Some("")
          /\ Entry(i).postings[1].meta = Some([simplefin_id |-> ""])
          /\ Txns[3 - i].id = Some("TRN-001")
          /\ Entry(3 - i).meta.simplefin_id = Some("TRN-001")
          /\ Entry(3 - i).postings[1].meta = Some([simplefin_id |-> "TRN-001"])

\* the Transactions among the entries es that are of date d, in order
TransactionsOn(es, d) ==
    LET OnDate(e) == IsTransaction(e) /\ e.date = d
    IN  SelectSeq(es, OnDate)

\* the Transactions the entry builder produced, in the order of the source
ProducedEntries == Collect(calls)

\* C11: the sequence extract returns is in ascending order of date; among the
\* entries of one date the Transactions are in the order of their source
\* transactions, and the balance assertion is behind all of them.
C11_SortedStable ==
    (Extracted /\ result.ok) =>
        /\ \A k \in 1..Len(result.value) : \A l \in 1..Len(result.value) :
              k < l =>
                 /\ result.value[k].date <= result.value[l].date
                 /\ (/\ result.value[k].date = result.value[l].date
                     /\ ~IsTransaction(result.value[k]))
                       => ~IsTransaction(result.value[l])
        /\ \A k \in 1..Len(result.value) :
              TransactionsOn(result.value, result.value[k].date)
                 = TransactionsOn(ProducedEntries, result.value[k].date)
        /\ Cardinality(ResultTransactions) = Len(ProducedEntries)

\* C11 happens: the later of two source transactions comes first in the
\* record; the result has the earlier one first, then the balance assertion of
\* that same date, then the later one.
C11_Witness ==
    /\ Extracted /\ result.ok /\ Len(Txns) = 2
    /\ Produced(1) /\ Produced(2)
    /\ Len(result.value) = 3
    /\ result.value[1] = Entry(2)
    /\ ~IsTransaction(result.value[2])
    /\ result.value[2].date = result.value[1].date
    /\ result.value[3] = Entry(1)
    /\ result.value[3].date > result.value[1].date

\* C11 happens for a tie: two different Transactions of one date are in the
\* result in the order of the source.
C11_WitnessTie ==
    /\ Extracted /\ result.ok /\ Len(Txns) = 2
    /\ Produced(1) /\ Produced(2)
    /\ Entry(1) # Entry(2) /\ Entry(1).date = Entry(2).date
    /\ SubSeq(result.value, 1, 2) = <<Entry(1), Entry(2)>>

\* the record has a transaction that is settled, of a valid date and with a
\* numeric amount, and a balance with a date
ValidContent ==
    /\ \E i \in 1..Len(Txns) :
          /\ Remaining(Txns[i])
          /\ SrcAmount(Txns[i]) # InvalidOperation
    /\ account_data.balance = Some(JInt(100))
    /\ account_data.balance_date = Some(Epoch1995)

\* C12: for a record without id, or whose id is no key of the account
\* mapping, extract returns the empty sequence and builds no entry, whatever
\* the record's transactions and balance.
C12_UnmappedIsEmpty ==
    (Extracted /\ ~Mapped) => (result = Return(<<>>) /\ calls = <<>>)

\* C12 happens: a record of the unmapped id ACT-999 with a valid transaction
\* and a valid balance gives the empty sequence.
C12_Witness ==
    /\ Extracted
    /\ account_data.id = Some("ACT-999")
    /\ ValidContent
    /\ result = Return(<<>>)

\* C12 happens for a record without id.
C12_WitnessNoId ==
    /\ Extracted
    /\ account_data.id = None
    /\ ValidContent
    /\ result = Return(<<>>)

\* the currency of an entry: of the primary posting's amount for a
\* Transaction, of the amount for a balance assertion
CurrencyOf(entry) ==
    IF IsTransaction(entry) THEN entry.postings[1].units[1].currency
    ELSE entry.amount.currency

\* the balance assertions of extract's result
ResultBalances == {k \in 1..Len(result.value) : ~IsTransaction(result.value[k])}

\* C13: every entry extract produces from a record, Transaction or balance
\* assertion, is in the record's currency when the record has a currency
\* field and in the importer's configured currency when it has none.
C13_CurrencyResolution ==
    (Extracted /\ result.ok) =>
        \A k \in 1..Len(result.value) :
            CurrencyOf(result.value[k])
                = IF account_data.currency # None
                  THEN account_data.currency[1]
                  ELSE self.currency

\* C13 happens: a record in EUR read by an importer configured for CAD gives
\* a Transaction and a balance assertion, both in EUR.
C13_Witness ==
    /\ Extracted /\ result.ok
    /\ self.currency = "CAD"
    /\ account_data.currency = Some("EUR")
    /\ ResultTransactions # {} /\ ResultBalances # {}
    /\ \A k \in 1..Len(result.value) : CurrencyOf(result.value[k]) = "EUR"

\* C13 happens for the default: a record without currency gives a Transaction
\* and a balance assertion in the importer's CAD.
C13_WitnessDefault ==
    /\ Extracted /\ result.ok
    /\ self.currency = "CAD"
    /\ account_data.currency = None
    /\ ResultTransactions # {} /\ ResultBalances # {}
    /\ \A k \in 1..Len(result.value) : CurrencyOf(result.value[k]) = "CAD"

\* no call of the entry builder raised
NoTransactionRaised ==
    Len(calls) = Len(Txns) /\ \A i \in 1..Len(calls) : calls[i].ok

\* the balance is missing or the text of a number
WellFormedBalance ==
    \/ GetJson(account_data.balance) = None
    \/ DecimalOf(PyStr(account_data.balance[1])) # InvalidOperation

\* balance-date is present, truthy, and the date normalizer gives a date
ValidBalanceDate ==
    /\ Truthy(GetJson(account_data.balance_date))
    /\ \E r \in {ParseDate(account_data.balance_date[1], tz)} :
          r.ok /\ r.value # None

\* C14 as stated: for a mapped record (here one whose transactions raise
\* nothing and whose balance is missing or numeric) extract raises nothing
\* and emits at most one balance assertion, on the mapped account and without
\* simplefin_id; when balance-date is absent or gives no date the assertion is
\* omitted and the result is the record's Transactions.
C14_BalanceAssertion ==
    (Extracted /\ Mapped /\ NoTransactionRaised /\ WellFormedBalance)
    => /\ result.ok
       /\ Cardinality(ResultBalances) <= 1
       /\ \A k \in ResultBalances :
             /\ result.value[k].account = PrimaryAccount
             /\ result.value[k].meta.simplefin_id = None
       /\ ~ValidBalanceDate =>
             /\ ResultBalances = {}
             /\ result.value = SortByDate(ProducedEntries)

\* the values of posted and balance-date that the record holds
DateValues ==
    {Txns[i].posted[1] : i \in {j \in 1..Len(Txns) : Txns[j].posted # None}}
    \cup (IF account_data.balance_date = None THEN {}
          ELSE {account_data.balance_date[1]})

\* C15 as stated: the date normalizer raises for no input; it gives
\* NotADate for a string that is no ISO 8601 text and for an input that is
\* neither a number nor a string.
C15_ParseDateTotal ==
    Extracted =>
        \A v \in DateValues :
            \E r \in {ParseDate(v, tz)} :
                /\ r.ok
                /\ (v.t = "str" /\ ~FromIsoFormatDate(ReplaceZ(v.chars)).ok)
                      => r.value = None
                /\ v.t \in {"list", "null"} => r.value = None

\* ------------------------------------------------------------------------
\* Properties of a re-import, under SpecReimport
\* ------------------------------------------------------------------------

\* C16: when the file of a mapped account is extracted twice and both
\* extractions return, the two sequences are of one length, and the
\* Transaction at a position of the first is a duplicate, by cmp, of the
\* entry at that position of the second, also when its simplefin_id is "".
C16_ReimportIsDuplicate ==
    /\ (pc \in {"reimported", "compared"} /\ result.ok)
          => (reimport.ok /\ Len(reimport.value) = Len(result.value))
    /\ (pc = "compared" /\ IsTransaction(entry1)) => duplicate

\* C16 happens: the Transaction of a source transaction without id, carrying
\* the simplefin_id "", is a duplicate of its re-import.
C16_Witness ==
    /\ pc = "compared"
    /\ IsTransaction(entry1) /\ IsTransaction(entry2)
    /\ entry1.meta.simplefin_id = Some("")
    /\ Len(result.value) >= 2
    /\ duplicate

\* C16 happens for a Transaction with a source id.
C16_WitnessId ==
    /\ pc = "compared"
    /\ IsTransaction(entry1) /\ IsTransaction(entry2)
    /\ entry1.meta.simplefin_id = Some("TRN-001")
    /\ duplicate

\* ------------------------------------------------------------------------
\* cmp of entries without postings, under SpecCmp
\* ------------------------------------------------------------------------

\* C17: for two Transactions without id of which at least one has no
\* postings, cmp compares neither account nor amount: they are duplicates
\* exactly when their dates are equal.
C17_EmptyPostingsByDate ==
    (Compared /\ BothTransactions /\ ~HasId(entry1) /\ ~HasId(entry2)
        /\ ~BothHavePostings)
    => (duplicate <=> entry1.date = entry2.date)

\* C17 happens: a Transaction with an amount on Assets:Checking and one of
\* the same date without postings are duplicates.
C17_Witness ==
    /\ Compared /\ BothTransactions /\ ~HasId(entry1) /\ ~HasId(entry2)
    /\ Len(entry1.postings) = 2 /\ entry1.postings[1].units # None
    /\ Len(entry2.postings) = 0
    /\ entry1.date = entry2.date
    /\ duplicate

\* C17 happens for different dates: no duplicates.
C17_WitnessOtherDate ==
    /\ Compared /\ BothTransactions /\ ~HasId(entry1) /\ ~HasId(entry2)
    /\ Len(entry1.postings) = 0 /\ Len(entry2.postings) = 0
    /\ entry1.date # entry2.date
    /\ ~duplicate

====
